---- MODULE Spec2Model ----
(***************************************************************************)
(* Model of package scraper (scraper.go): the date-range derivation        *)
(* getDates, the availability matcher getAvailableSites, and the           *)
(* dispatcher ScrapeFromMessage with its collaborators (fetch, email,      *)
(* scheduler).                                                             *)
(*                                                                         *)
(* A time.Time is modelled as the number of whole days since Go's zero     *)
(* time, 0001-01-01T00:00:00Z: every time the program handles is midnight  *)
(* UTC (layoutISO has no clock or zone fields, and the availability keys   *)
(* are midnight UTC).  A time.Duration is modelled in whole hours.         *)
(***************************************************************************)
EXTENDS Integers, Sequences, FiniteSets

VARIABLES
    pc,              \* position in the function under execution
    msg,             \* pubsub.Message.Data, the payload
    messageContent,  \* MessageContent decoded from the payload
    decodeErr,       \* err of json.Unmarshal at line 68
    arrival,         \* time.Time (days since 0001-01-01)
    departure,       \* time.Time
    parseErr,        \* the errors discarded at lines 77 and 78
    serverData,      \* what the remote provider holds for the campground
    fetchKind,       \* how the HTTP exchange of this invocation ends
    campground,      \* Campground decoded from the response body
    dates,           \* result of getDates
    available,       \* result of getAvailableSites
    matched,         \* getAvailableSites has run in this invocation
    calls,           \* sequence of collaborator invocations, in order
    jobs,            \* recurring jobs scheduled at the scheduler
    jobs0,           \* the jobs scheduled before the invocation
    ret              \* outcome of the invocation

vars == <<pc, msg, messageContent, decodeErr, arrival, departure, parseErr,
          serverData, fetchKind, campground, dates, available, matched,
          calls, jobs, jobs0, ret>>

(***************************************************************************)
(* Bounds of the model.                                                    *)
(***************************************************************************)
\* request dates are BaseDate, BaseDate + 1, ..., BaseDate + MaxDayOffset
MaxDayOffset == 3

\* 2024-3-30: the pool of request dates crosses the March/April boundary
BaseDate == <<2024, 3, 30>>

\* a date more than one time.Duration before the pool
FarDate == <<1700, 1, 1>>

\* getDates is exercised on BaseDate, ..., BaseDate + MaxSpan
MaxSpan == 9

(***************************************************************************)
(* The proleptic Gregorian calendar of package time.                       *)
(***************************************************************************)
isLeap(y) == (y % 4 = 0) /\ ((y % 100 # 0) \/ (y % 400 = 0))

daysIn(m, y) ==
    IF m = 2 THEN (IF isLeap(y) THEN 29 ELSE 28)
    ELSE IF m \in {4, 6, 9, 11} THEN 30 ELSE 31

\* time.Date(y, m, d, 0, 0, 0, 0, time.UTC) as days since 0001-01-01
Date(y, m, d) ==
    LET yy  == IF m <= 2 THEN y - 1 ELSE y
        era == yy \div 400
        yoe == yy - era * 400
        mp  == (m + 9) % 12
        doy == (153 * mp + 2) \div 5 + d - 1
        doe == yoe * 365 + yoe \div 4 - yoe \div 100 + doy
    IN  era * 146097 + doe - 306

\* <<year, month, day>> of a time: t.Year(), t.Month(), t.Day()
Civil(t) ==
    LET z   == t + 306
        era == z \div 146097
        doe == z - era * 146097
        yoe == (doe - doe \div 1460 + doe \div 36524 - doe \div 146096) \div 365
        doy == doe - (365 * yoe + yoe \div 4 - yoe \div 100)
        mp  == (5 * doy + 2) \div 153
        d   == doy - (153 * mp + 2) \div 5 + 1
        m   == IF mp < 10 THEN mp + 3 ELSE mp - 9
        y   == yoe + era * 400
    IN  <<IF m <= 2 THEN y + 1 ELSE y, m, d>>

Year(t)  == Civil(t)[1]
Month(t) == Civil(t)[2]
Day(t)   == Civil(t)[3]

\* t.Weekday(), 0 = Sunday; 0001-01-01 is a Monday
Weekday(t) == (t + 1) % 7

\* t.Format("Mon Jan 2"): the weekday, month and day-of-month fields
Format(t) == <<Weekday(t), Month(t), Day(t)>>

(***************************************************************************)
(* A date string is modelled as the sequence of its dash-separated numeric *)
(* fields: "2024-3-5" is <<2024, 3, 5>> and "" is <<>>.                    *)
(* time.Parse(layoutISO, s) returns the time and whether an error was      *)
(* reported; on error the time is the zero time.                           *)
(***************************************************************************)
ZeroTime == Date(1, 1, 1)

Parse(s) ==
    IF /\ Len(s) = 3
       /\ s[1] \in 0..9999
       /\ s[2] \in 1..12
       /\ s[3] \in 1..daysIn(s[2], s[1])
    THEN [t |-> Date(s[1], s[2], s[3]), err |-> FALSE]
    ELSE [t |-> ZeroTime, err |-> TRUE]

(***************************************************************************)
(* time.Duration is an int64 count of nanoseconds; its largest value,      *)
(* 2^63 - 1 ns, is 2562047 h 47 m 16.85 s.  Time.Sub saturates at the      *)
(* largest and smallest Duration.  The times here are whole days, so a     *)
(* Duration in whole hours is exact below saturation, and at saturation    *)
(* int(Hours()/24) is the same for 2562047 h as for 2562047.78 h.          *)
(***************************************************************************)
MaxDurationHours == 2562047

Sub(t, u) ==
    LET h == (t - u) * 24
    IN  IF h > MaxDurationHours THEN MaxDurationHours
        ELSE IF h < -MaxDurationHours THEN -MaxDurationHours
        ELSE h

\* int(x) of a float64 truncates toward zero
TruncDiv(a, b) == IF a >= 0 THEN a \div b ELSE -((-a) \div b)

\* the loop bound at line 159: int(endDate.Sub(startDate).Hours()/24)
dayCount(startDate, endDate) == TruncDiv(Sub(endDate, startDate), 24)

\* getDates: startDate.Add(24*day hours) for day = 0, ..., dayCount - 1
getDates(startDate, endDate) ==
    [day \in 1..dayCount(startDate, endDate) |->
        startDate + TruncDiv(24 * (day - 1), 24)]

(***************************************************************************)
(* Campground: Campsites maps a site identifier to a Campsite, whose       *)
(* Availabilities maps a time to a status label.  Indexing a Go map with   *)
(* an absent key yields the zero value, the empty string.                  *)
(***************************************************************************)
Lookup(m, k) == IF k \in DOMAIN m THEN m[k] ELSE ""

\* the inner loop of getAvailableSites for one site over the n dates ds,
\* from index idx on: TRUE iff the loop reaches the append at line 149
RECURSIVE scanSite(_, _, _, _)
scanSite(site, ds, n, idx) ==
    IF idx > n THEN FALSE
    ELSE IF Lookup(site.Availabilities, ds[idx]) # "Available" THEN FALSE
    ELSE IF idx = n THEN TRUE
    ELSE scanSite(site, ds, n, idx + 1)

\* matchSites with the append at the first night (idx == 0 at line 147)
matchSitesFirstNight(cg, ds, n, order) ==
    SelectSeq(order, LAMBDA siteID :
        n > 0 /\ Lookup(cg.Campsites[siteID].Availabilities, ds[1]) = "Available")

\* matchSites that looks at the last night only (the loop without its break)
matchSitesLastNight(cg, ds, n, order) ==
    SelectSeq(order, LAMBDA siteID :
        n > 0 /\ Lookup(cg.Campsites[siteID].Availabilities, ds[n]) = "Available")

\* matchSites as "no night is unavailable", which every site passes when
\* there are no nights
matchSitesVacuous(cg, ds, n, order) ==
    SelectSeq(order, LAMBDA siteID :
        \A k \in 1..n : Lookup(cg.Campsites[siteID].Availabilities, ds[k]) = "Available")

\* the outer loop of getAvailableSites over the sites in the order `order`,
\* the iteration order the Go runtime picks for the map; n is len(dates)
matchSites(cg, ds, n, order) ==
    SelectSeq(order, LAMBDA siteID : scanSite(cg.Campsites[siteID], ds, n, 1))

getAvailableSites(cg, arr, dep, order) ==
    matchSites(cg, getDates(arr, dep),
               IF dayCount(arr, dep) > 0 THEN dayCount(arr, dep) ELSE 0, order)

\* the orders in which a range loop may visit the keys S
Orders(S) ==
    {o \in [1..Cardinality(S) -> S] : \A s \in S : \E i \in DOMAIN o : o[i] = s}

(***************************************************************************)
(* Inputs.                                                                 *)
(***************************************************************************)
BaseTime == Date(BaseDate[1], BaseDate[2], BaseDate[3])
FarTime  == Date(FarDate[1], FarDate[2], FarDate[3])

\* the request dates and the nights a stay among them can need
PoolTimes == {BaseTime + k : k \in 0..MaxDayOffset}
DataTimes == {BaseTime + k : k \in 0..(MaxDayOffset - 1)}

SiteIDs == {"A", "B"}
Statuses == {"Available", "Reserved"}

AvailabilityMaps == UNION {[D -> Statuses] : D \in SUBSET DataTimes}
Campgrounds ==
    UNION {{[Campsites |-> [s \in S |-> [Availabilities |-> f[s]]]] :
              f \in [S -> AvailabilityMaps]} : S \in SUBSET SiteIDs}

EmptyCampground == [Campsites |-> <<>>]
EmptyMessage == [Name |-> "", Campground |-> "", Arrival |-> <<>>, Departure |-> <<>>]

(***************************************************************************)
(* SpecSites: getAvailableSites applied to every campground and stay of    *)
(* the bounded input sets.                                                 *)
(***************************************************************************)
Idle ==
    /\ msg = [kind |-> "none"]
    /\ messageContent = EmptyMessage
    /\ decodeErr = FALSE
    /\ parseErr = FALSE
    /\ serverData = EmptyCampground
    /\ fetchKind = "none"
    /\ calls = <<>>
    /\ jobs = {}
    /\ jobs0 = {}
    /\ ret = "none"

InitSites ==
    /\ Idle
    /\ pc = "getAvailableSites"
    /\ campground \in Campgrounds
    /\ arrival \in PoolTimes
    /\ departure \in PoolTimes
    /\ dates = <<>>
    /\ available = <<>>
    /\ matched = FALSE

\* line 138
CallGetDates ==
    /\ pc = "getAvailableSites"
    /\ dates' = getDates(arrival, departure)
    /\ pc' = "loop"
    /\ UNCHANGED <<msg, messageContent, decodeErr, arrival, departure, parseErr,
                   serverData, fetchKind, campground, available, matched,
                   calls, jobs, jobs0, ret>>

\* lines 140-153
LoopSites ==
    /\ pc = "loop"
    /\ \E order \in Orders(DOMAIN campground.Campsites) :
          available' = matchSites(campground, dates, Len(dates), order)
    /\ matched' = TRUE
    /\ pc' = "returned"
    /\ UNCHANGED <<msg, messageContent, decodeErr, arrival, departure, parseErr,
                   serverData, fetchKind, campground, dates,
                   calls, jobs, jobs0, ret>>

NextSites == CallGetDates \/ LoopSites

SpecSites == InitSites /\ [][NextSites]_vars

(***************************************************************************)
(* SpecDates: getDates applied to every pair of the bounded input set,     *)
(* which holds times more than one time.Duration apart.                    *)
(***************************************************************************)
SpanTimes == {BaseTime + k : k \in 0..MaxSpan} \cup {ZeroTime, FarTime}

InitDates ==
    /\ Idle
    /\ pc = "getDates"
    /\ campground = EmptyCampground
    /\ arrival \in SpanTimes
    /\ departure \in SpanTimes
    /\ dates = <<>>
    /\ available = <<>>
    /\ matched = FALSE

\* lines 156-166
RunGetDates ==
    /\ pc = "getDates"
    /\ dates' = getDates(arrival, departure)
    /\ pc' = "returned"
    /\ UNCHANGED <<msg, messageContent, decodeErr, arrival, departure, parseErr,
                   serverData, fetchKind, campground, available, matched,
                   calls, jobs, jobs0, ret>>

NextDates == RunGetDates

SpecDates == InitDates /\ [][NextDates]_vars

(***************************************************************************)
(* The payload of the Pub/Sub message.  A payload is either not JSON at    *)
(* all (syntax), or a JSON object whose fields named in `bad` hold a value *)
(* that is not a string; the other fields hold the strings given.          *)
(* json.Unmarshal leaves the target untouched on a syntax error, and on a  *)
(* type error skips the offending field, fills the rest and reports the    *)
(* error.                                                                  *)
(***************************************************************************)
Names == {"", "job1"}
CampgroundIDs == {"232447"}
DateString(t) == Civil(t)
DateStrings == {DateString(t) : t \in PoolTimes} \cup {<<>>, <<2024, 2, 30>>}

Payloads ==
    {[syntax |-> FALSE, bad |-> b, Name |-> n, Campground |-> c,
      Arrival |-> a, Departure |-> d] :
        b \in {{}, {"Name"}, {"Arrival"}, {"Departure"}},
        n \in Names, c \in CampgroundIDs, a \in DateStrings, d \in DateStrings}

WellTyped(m) ==
    /\ "Name" \in m.bad => m.Name = ""
    /\ "Arrival" \in m.bad => m.Arrival = <<>>
    /\ "Departure" \in m.bad => m.Departure = <<>>

GarbagePayload ==
    [syntax |-> TRUE, bad |-> {}, Name |-> "", Campground |-> "",
     Arrival |-> <<>>, Departure |-> <<>>]

Messages == {m \in Payloads : WellTyped(m)} \cup {GarbagePayload}

Unmarshal(m) ==
    IF m.syntax THEN [mc |-> EmptyMessage, err |-> TRUE]
    ELSE [mc |-> [Name |-> IF "Name" \in m.bad THEN "" ELSE m.Name,
                  Campground |-> IF "Campground" \in m.bad THEN "" ELSE m.Campground,
                  Arrival |-> IF "Arrival" \in m.bad THEN <<>> ELSE m.Arrival,
                  Departure |-> IF "Departure" \in m.bad THEN <<>> ELSE m.Departure],
          err |-> m.bad # {}]

(***************************************************************************)
(* The remote provider.  It answers a month request with the entries of    *)
(* the month that starts at start_date, or with more than that month.      *)
(***************************************************************************)
JobNames == {"job1", "job2"}

ServerCampgrounds ==
    {c \in Campgrounds :
        \A s \in DOMAIN c.Campsites :
            \A t \in DOMAIN c.Campsites[s].Availabilities :
                c.Campsites[s].Availabilities[t] = "Available"}

firstOfMonth(t) == Date(Year(t), Month(t), 1)

InMonth(t, first) == first <= t /\ t < first + daysIn(Month(first), Year(first))

MonthOf(cg, first) ==
    [Campsites |->
        [s \in DOMAIN cg.Campsites |->
            [Availabilities |->
                [t \in {u \in DOMAIN cg.Campsites[s].Availabilities : InMonth(u, first)} |->
                    cg.Campsites[s].Availabilities[t]]]]]

\* the Campground that lines 129-132 decode, per outcome of the exchange
Decoded(kind, body) ==
    IF kind \in {"ok", "type"} THEN body ELSE EmptyCampground

FetchKinds == {"ok", "type", "syntax", "transport"}

(***************************************************************************)
(* Spec: one invocation of ScrapeFromMessage.                              *)
(***************************************************************************)
Init ==
    /\ pc = "start"
    /\ msg \in Messages
    /\ messageContent = EmptyMessage
    /\ decodeErr = FALSE
    /\ arrival = ZeroTime
    /\ departure = ZeroTime
    /\ parseErr = FALSE
    /\ serverData \in ServerCampgrounds
    /\ fetchKind = "none"
    /\ campground = EmptyCampground
    /\ dates = <<>>
    /\ available = <<>>
    /\ matched = FALSE
    /\ calls = <<>>
    /\ jobs = JobNames
    /\ jobs0 = JobNames
    /\ ret = "none"

\* lines 67-71: the error is logged and execution continues
Decode ==
    /\ pc = "start"
    /\ messageContent' = Unmarshal(msg).mc
    /\ decodeErr' = Unmarshal(msg).err
    /\ pc' = "checkName"
    /\ UNCHANGED <<msg, arrival, departure, parseErr, serverData, fetchKind,
                   campground, dates, available, matched, calls, jobs, jobs0, ret>>

\* CheckName without the test of the name
CheckNameSkipped ==
    /\ pc = "checkName"
    /\ pc' = "parse"
    /\ UNCHANGED <<msg, messageContent, decodeErr, arrival, departure, parseErr,
                   serverData, fetchKind, campground, dates, available, matched,
                   calls, jobs, jobs0, ret>>

\* lines 72-74
CheckName ==
    /\ pc = "checkName"
    /\ IF messageContent.Name = ""
       THEN pc' = "done" /\ ret' = "error"
       ELSE pc' = "parse" /\ ret' = ret
    /\ UNCHANGED <<msg, messageContent, decodeErr, arrival, departure, parseErr,
                   serverData, fetchKind, campground, dates, available, matched,
                   calls, jobs, jobs0>>

\* lines 75-78: both parse errors are discarded
ParseDates ==
    /\ pc = "parse"
    /\ arrival' = Parse(messageContent.Arrival).t
    /\ departure' = Parse(messageContent.Departure).t
    /\ parseErr' = (Parse(messageContent.Arrival).err \/ Parse(messageContent.Departure).err)
    /\ pc' = "fetch"
    /\ UNCHANGED <<msg, messageContent, decodeErr, serverData, fetchKind,
                   campground, dates, available, matched, calls, jobs, jobs0, ret>>

\* lines 126-132: on a transport failure response is nil and response.Body
\* panics; a decoding error of the body is discarded
Fetch ==
    /\ pc = "fetch"
    /\ \E kind \in FetchKinds, wide \in BOOLEAN :
         LET first == firstOfMonth(arrival)
             body  == IF wide THEN serverData ELSE MonthOf(serverData, first)
         IN  /\ fetchKind' = kind
             /\ calls' = Append(calls, [op |-> "fetch", id |-> messageContent.Campground,
                                        start |-> first])
             /\ IF kind = "transport"
                THEN /\ pc' = "done"
                     /\ ret' = "panic"
                     /\ campground' = campground
                ELSE /\ pc' = "match"
                     /\ ret' = ret
                     /\ campground' = Decoded(kind, body)
    /\ UNCHANGED <<msg, messageContent, decodeErr, arrival, departure, parseErr,
                   serverData, dates, available, matched, jobs, jobs0>>

\* Match with the test at line 80 as len(available) >= 0
MatchAlwaysNotify ==
    /\ pc = "match"
    /\ \E order \in Orders(DOMAIN campground.Campsites) :
         available' = getAvailableSites(campground, arrival, departure, order)
    /\ pc' = "sendEmail"
    /\ matched' = TRUE
    /\ UNCHANGED <<msg, messageContent, decodeErr, arrival, departure, parseErr,
                   serverData, fetchKind, campground, dates, calls, jobs, jobs0, ret>>

\* line 133 and line 80
Match ==
    /\ pc = "match"
    /\ \E order \in Orders(DOMAIN campground.Campsites) :
         /\ available' = getAvailableSites(campground, arrival, departure, order)
         /\ pc' = IF Len(available') > 0 THEN "sendEmail" ELSE "return"
    /\ matched' = TRUE
    /\ UNCHANGED <<msg, messageContent, decodeErr, arrival, departure, parseErr,
                   serverData, fetchKind, campground, dates, calls, jobs, jobs0, ret>>

\* line 81, lines 168-184: sendEmail returns nothing, a failed send is logged
SendEmail ==
    /\ pc = "sendEmail"
    /\ \E sent \in BOOLEAN :
         calls' = Append(calls, [op |-> "sendEmail", id |-> messageContent.Campground,
                                 sites |-> available, arrival |-> Format(arrival),
                                 departure |-> Format(departure), ok |-> sent])
    /\ pc' = "deleteJob"
    /\ UNCHANGED <<msg, messageContent, decodeErr, arrival, departure, parseErr,
                   serverData, fetchKind, campground, dates, available, matched,
                   jobs, jobs0, ret>>

\* DeleteJob called with the campground id in place of the job name
DeleteJobWrongName ==
    /\ pc = "deleteJob"
    /\ \E outcome \in {"deleted", "clientError", "deleteError"} :
         /\ calls' = Append(calls, [op |-> "deleteJob", job |-> messageContent.Campground,
                                    ok |-> (outcome = "deleted")])
         /\ jobs' = IF outcome = "deleted" THEN jobs \ {messageContent.Campground} ELSE jobs
    /\ pc' = "return"
    /\ UNCHANGED <<msg, messageContent, decodeErr, arrival, departure, parseErr,
                   serverData, fetchKind, campground, dates, available, matched,
                   jobs0, ret>>

\* line 82, lines 211-229: the error deleteJob returns is dropped
DeleteJob ==
    /\ pc = "deleteJob"
    /\ \E outcome \in {"deleted", "clientError", "deleteError"} :
         /\ calls' = Append(calls, [op |-> "deleteJob", job |-> messageContent.Name,
                                    ok |-> (outcome = "deleted")])
         /\ jobs' = IF outcome = "deleted" THEN jobs \ {messageContent.Name} ELSE jobs
    /\ pc' = "return"
    /\ UNCHANGED <<msg, messageContent, decodeErr, arrival, departure, parseErr,
                   serverData, fetchKind, campground, dates, available, matched,
                   jobs0, ret>>

\* Return that reports a failed send or a failed deletion to the caller
ReturnReportsFailure ==
    /\ pc = "return"
    /\ ret' = IF \E i \in DOMAIN calls : calls[i].op # "fetch" /\ ~calls[i].ok
              THEN "error" ELSE "nil"
    /\ pc' = "done"
    /\ UNCHANGED <<msg, messageContent, decodeErr, arrival, departure, parseErr,
                   serverData, fetchKind, campground, dates, available, matched,
                   calls, jobs, jobs0>>

\* line 84
Return ==
    /\ pc = "return"
    /\ ret' = "nil"
    /\ pc' = "done"
    /\ UNCHANGED <<msg, messageContent, decodeErr, arrival, departure, parseErr,
                   serverData, fetchKind, campground, dates, available, matched,
                   calls, jobs, jobs0>>

Next == Decode \/ CheckName \/ ParseDates \/ Fetch \/ Match \/ SendEmail
        \/ DeleteJob \/ Return

Spec == Init /\ [][Next]_vars

(***************************************************************************)
(* Vocabulary of the properties.                                           *)
(***************************************************************************)
Range(seq) == {seq[i] : i \in DOMAIN seq}

\* the positions in calls of the invocations of collaborator op
CallsOf(op) == {i \in DOMAIN calls : calls[i].op = op}

\* site s of campground cg is "Available" on every one of the nights ds
FreeEveryNight(cg, s, ds) ==
    \A k \in DOMAIN ds : Lookup(cg.Campsites[s].Availabilities, ds[k]) = "Available"

\* cg with the status of site s at time t replaced by v ("" removes the entry)
WithStatus(cg, s, t, v) ==
    LET av   == cg.Campsites[s].Availabilities
        keys == IF v = "" THEN DOMAIN av \ {t} ELSE DOMAIN av \cup {t}
        av2  == [u \in keys |-> IF u = t THEN v ELSE av[u]]
    IN  [Campsites |-> [x \in DOMAIN cg.Campsites |->
                          IF x = s THEN [Availabilities |-> av2] ELSE cg.Campsites[x]]]

\* every entry of cg lies in the calendar month of time t
OnlyMonthOf(cg, t) ==
    \A s \in DOMAIN cg.Campsites :
        \A u \in DOMAIN cg.Campsites[s].Availabilities : InMonth(u, firstOfMonth(t))

\* the payload decoded without error, names a job, and both dates parsed
WellFormed == ~decodeErr /\ messageContent.Name # "" /\ ~parseErr

(***************************************************************************)
(* C1: for a non-empty nights sequence, getAvailableSites returns a site   *)
(* iff the site's status is exactly "Available" on every night (an absent  *)
(* entry is a non-match); and replacing the status of any one night of a   *)
(* returned site by another value, or removing it, takes the site out of   *)
(* the result, in whatever order the sites are visited.                    *)
(***************************************************************************)
C1_QualifiesIffEveryNightAvailable ==
    (pc = "returned" /\ Len(dates) > 0) =>
        /\ \A s \in DOMAIN campground.Campsites :
              (s \in Range(available)) <=> FreeEveryNight(campground, s, dates)
        /\ Range(available) \subseteq DOMAIN campground.Campsites
        /\ \A s \in Range(available) :
              \A k \in DOMAIN dates :
                 \A v \in {"Reserved", ""} :
                    \A order \in Orders(DOMAIN campground.Campsites) :
                       s \notin Range(matchSites(WithStatus(campground, s, dates[k], v),
                                                 dates, Len(dates), order))

\* one site of two is returned; the other is free the first night only
C1_Witness ==
    /\ pc = "returned"
    /\ Len(dates) >= 2
    /\ DOMAIN campground.Campsites = {"A", "B"}
    /\ available = <<"A">>
    /\ Lookup(campground.Campsites["B"].Availabilities, dates[1]) = "Available"
    /\ Lookup(campground.Campsites["B"].Availabilities, dates[Len(dates)]) = "Available"

(***************************************************************************)
(* C2: with an empty nights sequence (departure on or before arrival)      *)
(* getAvailableSites returns no site, whatever the campground holds.       *)
(***************************************************************************)
C2_EmptyNightsMatchNothing ==
    /\ (pc # "getAvailableSites" /\ departure <= arrival) => dates = <<>>
    /\ (pc = "returned" /\ Len(dates) = 0) => available = <<>>

\* every site is "Available" on every date, the stay is empty, nothing returned
C2_Witness ==
    /\ pc = "returned"
    /\ departure <= arrival
    /\ DOMAIN campground.Campsites = SiteIDs
    /\ \A s \in SiteIDs :
          /\ DOMAIN campground.Campsites[s].Availabilities = DataTimes
          /\ \A t \in DataTimes : campground.Campsites[s].Availabilities[t] = "Available"
    /\ available = <<>>

(***************************************************************************)
(* C3: getDates(arrival, departure) is arrival, arrival + 1 day, ...,      *)
(* departure - 1 day when arrival < departure, of length exactly the       *)
(* number of days between them, and empty when departure <= arrival.       *)
(***************************************************************************)
C3_GetDatesIsTheStay ==
    pc = "returned" =>
        IF arrival < departure
        THEN /\ Len(dates) = departure - arrival
             /\ dates[1] = arrival
             /\ dates[Len(dates)] = departure - 1
             /\ \A i \in DOMAIN dates : dates[i] = arrival + (i - 1)
        ELSE dates = <<>>

(***************************************************************************)
(* C4: with an empty Name after decoding (a payload that could not be      *)
(* decoded included) ScrapeFromMessage ends with an error and invokes      *)
(* neither the fetch, nor the email, nor the job deletion.                 *)
(***************************************************************************)
C4_EmptyNameAborts ==
    (pc # "start" /\ messageContent.Name = "") =>
        /\ pc \in {"checkName", "done"}
        /\ pc = "done" => ret = "error"
        /\ calls = <<>>
        /\ ~matched
        /\ jobs = jobs0

\* the payload was not JSON: the name stayed empty and the invocation ended
C4_Witness ==
    /\ pc = "done"
    /\ msg.syntax
    /\ decodeErr
    /\ messageContent.Name = ""
    /\ ret = "error"

(***************************************************************************)
(* C5: when decoding the payload reports an error, or the arrival or the   *)
(* departure string does not parse, ScrapeFromMessage ends with an error   *)
(* before the fetch: it never fetches, matches, notifies or cancels.       *)
(***************************************************************************)
C5_BadInputAbortsBeforeFetch ==
    (decodeErr \/ parseErr) =>
        /\ calls = <<>>
        /\ ~matched
        /\ pc = "done" => ret = "error"

(***************************************************************************)
(* C6: for a well-formed request with a non-empty match, one invocation    *)
(* invokes sendEmail exactly once, with the request's campground id and    *)
(* the matched sites, and then deleteJob exactly once, with the request's  *)
(* job name; deleteJob is never invoked before sendEmail.                  *)
(***************************************************************************)
C6_NotifyOnceThenCancelOnce ==
    /\ (WellFormed /\ pc = "done" /\ matched /\ Len(available) > 0) =>
          /\ Cardinality(CallsOf("sendEmail")) = 1
          /\ Cardinality(CallsOf("deleteJob")) = 1
          /\ \A i \in CallsOf("sendEmail") :
                /\ calls[i].id = msg.Campground
                /\ calls[i].sites = available
                /\ \A j \in CallsOf("deleteJob") : i < j
          /\ \A j \in CallsOf("deleteJob") : calls[j].job = msg.Name
    /\ \A j \in CallsOf("deleteJob") : \E i \in CallsOf("sendEmail") : i < j
    /\ Cardinality(CallsOf("sendEmail")) <= 1
    /\ Cardinality(CallsOf("deleteJob")) <= 1

\* both sites matched, the email went out, and then the deletion failed
C6_Witness ==
    /\ WellFormed
    /\ pc = "done"
    /\ Len(available) = 2
    /\ Len(calls) = 3
    /\ calls[2].op = "sendEmail"
    /\ calls[3].op = "deleteJob"
    /\ ~calls[3].ok

(***************************************************************************)
(* C7: with an empty match ScrapeFromMessage returns nil without invoking  *)
(* sendEmail or deleteJob, and the jobs scheduled before the invocation    *)
(* are still scheduled after it.                                           *)
(***************************************************************************)
C7_NoMatchNoEffect ==
    (matched /\ available = <<>>) =>
        /\ CallsOf("sendEmail") = {}
        /\ CallsOf("deleteJob") = {}
        /\ jobs = jobs0
        /\ pc \in {"return", "done"}
        /\ pc = "done" => ret = "nil"

\* a campground with sites was fetched for a real stay, and none matched
C7_Witness ==
    /\ pc = "done"
    /\ WellFormed
    /\ fetchKind = "ok"
    /\ arrival < departure
    /\ DOMAIN campground.Campsites = SiteIDs
    /\ available = <<>>
    /\ ret = "nil"
    /\ msg.Name \in jobs

(***************************************************************************)
(* C8: when the fetch fails (no response, or a body that does not decode)  *)
(* the invocation ends with an error: no match is attempted, no email is   *)
(* sent and no job is deleted.                                             *)
(***************************************************************************)
C8_FailedFetchAborts ==
    (fetchKind \in {"transport", "syntax", "type"}) =>
        /\ ~matched
        /\ CallsOf("sendEmail") = {}
        /\ CallsOf("deleteJob") = {}
        /\ pc = "done" => ret \in {"error", "panic"}

(***************************************************************************)
(* C9: deleteJob is invoked whenever the match is non-empty, whether or    *)
(* not the email was sent: after a failed send the job is still deleted,   *)
(* and ScrapeFromMessage returns nil then, and also when the deletion      *)
(* itself fails.                                                           *)
(***************************************************************************)
C9_CancelRegardlessOfNotify ==
    (pc = "done" /\ matched /\ Len(available) > 0) =>
        /\ CallsOf("sendEmail") # {}
        /\ CallsOf("deleteJob") # {}
        /\ ret = "nil"
        /\ \A j \in CallsOf("deleteJob") :
              /\ calls[j].job = messageContent.Name
              /\ calls[j].ok => messageContent.Name \notin jobs
              /\ ~calls[j].ok => jobs = jobs0

\* the send failed, the job was deleted all the same, and nil was returned
C9_Witness ==
    /\ pc = "done"
    /\ ret = "nil"
    /\ \E i \in CallsOf("sendEmail") : ~calls[i].ok
    /\ \E j \in CallsOf("deleteJob") : calls[j].ok
    /\ messageContent.Name \in jobs0 \ jobs

(***************************************************************************)
(* C10: the fetch asks for the month that starts on the first day of the   *)
(* arrival month, once; and when the fetched campground holds entries of   *)
(* the arrival month only, a stay with arrival < departure whose last      *)
(* night falls in a later month matches no site: no email, no deletion.    *)
(***************************************************************************)
C10_StayAcrossMonthsMatchesNothing ==
    /\ \A i \in CallsOf("fetch") :
          /\ calls[i].start = firstOfMonth(arrival)
          /\ i = 1
    /\ (/\ matched
        /\ arrival < departure
        /\ ~InMonth(departure - 1, firstOfMonth(arrival))
        /\ OnlyMonthOf(campground, arrival)) =>
            /\ available = <<>>
            /\ CallsOf("sendEmail") = {}
            /\ CallsOf("deleteJob") = {}

\* every site is free on every date of both months at the provider, the
\* answer holds the arrival month, and the stay runs into the next month
C10_Witness ==
    /\ pc = "done"
    /\ WellFormed
    /\ fetchKind = "ok"
    /\ arrival < departure
    /\ Month(departure - 1) # Month(arrival)
    /\ \A s \in SiteIDs :
          /\ s \in DOMAIN serverData.Campsites
          /\ DOMAIN serverData.Campsites[s].Availabilities = DataTimes
          /\ s \in DOMAIN campground.Campsites
          /\ DOMAIN campground.Campsites[s].Availabilities =
                {t \in DataTimes : Month(t) = Month(arrival)}
          /\ arrival \in DOMAIN campground.Campsites[s].Availabilities
    /\ available = <<>>

====
